---- MODULE Spec2Model ----
(***************************************************************************)
(* A model of the USB passthrough device of Source/Core/Core/IOS/USB/      *)
(* LibusbDevice.cpp: interface attachment, the SubmitTransfer overloads,   *)
(* the per-endpoint transfer tracker (TransferEndpoint) and the host       *)
(* completion callbacks.  The host USB stack (libusb) is the environment:  *)
(* every host call returns one of the outcomes the stack can produce in    *)
(* the current host state.                                                 *)
(***************************************************************************)
EXTENDS Integers, Sequences, FiniteSets, TLC

\* ------------------------------------------------------------- bounds
MaxTransfers == 1
MaxLen == 1
MaxPackets == 2
NumInterfaces == 2
MaxOpens == 2
MaxHoles == 1

\* ---------------------------------------------------- program constants
IPC_SUCCESS == 0
IPC_ENOENT == -6
LIBUSB_ERROR_IO == -1
LIBUSB_ERROR_NO_DEVICE == -4
LIBUSB_ERROR_NOT_FOUND == -5
LIBUSB_ERROR_BUSY == -6
LIBUSB_ERROR_NOT_SUPPORTED == -12
LIBUSB_CONTROL_SETUP_SIZE == 8
NO_HANDLE_ERROR == -1
RET_STALL == -7004
RET_TRANSFER_FAILED == -5
CTRL_ENDPOINT == 0
U8_RANGE == 256
IPC_MAX_FDS == 24

NULL == 0

\* Fields of a control request: (request_type << 8) | request, as the switch
\* of SubmitTransfer(CtrlMessage) computes it.  USBHDR(dir, type, recipient,
\* request) is ((dir << 7 | type << 5 | recipient) << 8) | request; the
\* field values are those of the USB standard.
DIR_HOST2DEVICE == 0
DIR_DEVICE2HOST == 1
TYPE_STANDARD == 0
REC_DEVICE == 0
REC_INTERFACE == 1
REQUEST_GET_DESCRIPTOR == 6
REQUEST_SET_CONFIGURATION == 9
REQUEST_SET_INTERFACE == 11

USBHDR(dir, type, recipient, request) ==
    ((dir * 128 + type * 32 + recipient) * 256) + request

\* ------------------------------------------------------------ domains
TransferIds == 1..MaxTransfers
Interfaces == 0..(NumInterfaces - 1)
\* Interface arguments of the guest: every real interface and one past them.
InterfaceArgs == 0..NumInterfaces
\* The endpoint the guest's bulk, interrupt and isochronous messages name
\* (0x81), and the endpoints it cancels: those and one it never uses.
DataEndpoints == {129}
CancelEndpoints == {CTRL_ENDPOINT, 2} \cup DataEndpoints
Lengths == 0..MaxLen
TransferTypes == {"CONTROL", "BULK", "INTERRUPT", "ISOCHRONOUS"}
TransferStatuses ==
    {"COMPLETED", "ERROR", "TIMED_OUT", "CANCELLED", "STALL", "NO_DEVICE", "OVERFLOW"}

VARIABLES
    m_device_attached,     \* LibusbDevice::m_device_attached
    m_active_interface,    \* LibusbDevice::m_active_interface
    m_handle,              \* LibusbDevice::m_handle (NULL or a host handle id)
    m_transfer_endpoints,  \* endpoint -> (transfer handle -> command)
    host_opened,           \* host: number of handles libusb_open has returned
    host_claimed,          \* host: set of <<handle, interface>> claimed
    host_gone,             \* host: the physical device has been unplugged
    host_transfers,        \* host: transfer handle -> libusb_transfer state
    completions,           \* per handle: OnTransferComplete calls on its command
    processed,             \* per handle: a HandleTransfer already removed its entry
    pc,                    \* guest thread: "idle", or "submit" inside SubmitTransfer
    pending,               \* guest thread: the transfer SubmitTransfer is about to submit
    last,                  \* the most recent operation and what it did
    host_closed,           \* host: the handles libusb_close has closed
    m_fdmap,               \* Kernel::m_fdmap: slot -> device reference or NULL
    m_transfers_mutex,     \* TransferEndpoint::m_transfers_mutex: <<endpoint, thread>> held
    host_thread,           \* host thread: its position and locals inside HandleTransfer
    guest_thread           \* guest thread: its locals inside AddTransfer and CancelTransfers

vars == <<m_device_attached, m_active_interface, m_handle, m_transfer_endpoints,
          host_opened, host_claimed, host_gone, host_transfers, completions,
          processed, pc, pending, last, host_closed, m_fdmap, m_transfers_mutex,
          host_thread, guest_thread>>

devvars == <<m_device_attached, m_active_interface, m_handle, host_opened, host_claimed>>
trvars == <<m_transfer_endpoints, host_transfers, completions, processed>>
lockvars == <<m_transfers_mutex, host_thread, guest_thread>>

\* --------------------------------------------------------- bookkeeping
HostCall(f, a, b) == [f |-> f, a |-> a, b |-> b]
Reply(return_value, cycles_in_future) ==
    [return_value |-> return_value, cycles_in_future |-> cycles_in_future]

\* What one HandleTransfer did: whether it found an entry, the transfer it was
\* given, whether it ran the completion function and what that function did.
NoFn == [called |-> FALSE, ret |-> 0, fill |-> 0, pkts |-> <<>>]
NoTransfer == [id |-> 0, type |-> "NONE", endpoint |-> 0, length |-> 0,
               status |-> "NONE", actual_length |-> 0, iso_actual |-> <<>>]
NoCmd == [type |-> "NONE"]
NoHit == [found |-> FALSE, transfer |-> NoTransfer, cmd |-> NoCmd, fn |-> NoFn,
          completed |-> <<>>]

Op(op, arg, ret, ok, calls, replies, hit, cmd) ==
    [op |-> op, arg |-> arg, ret |-> ret, ok |-> ok, calls |-> calls,
     replies |-> replies, hit |-> hit, cmd |-> cmd]

\* ------------------------------------------------- host call outcomes
\* What each host call can return in the host state it is made in.
OpenOutcomes == IF host_gone THEN {LIBUSB_ERROR_NO_DEVICE} ELSE {0, LIBUSB_ERROR_IO}

DetachKernelDriverOutcomes ==
    IF host_gone THEN {LIBUSB_ERROR_NO_DEVICE}
    ELSE {0, LIBUSB_ERROR_NOT_FOUND, LIBUSB_ERROR_NOT_SUPPORTED, LIBUSB_ERROR_IO}

ClaimOutcomes(interface) ==
    IF host_gone THEN {LIBUSB_ERROR_NO_DEVICE}
    ELSE IF interface \notin Interfaces THEN {LIBUSB_ERROR_NOT_FOUND}
    ELSE {0, LIBUSB_ERROR_BUSY}

ClaimedOutcomes(dev) ==
    IF host_gone THEN {LIBUSB_ERROR_NO_DEVICE}
    ELSE IF <<dev.handle, dev.active>> \notin dev.claimed THEN {LIBUSB_ERROR_NOT_FOUND}
    ELSE {0, LIBUSB_ERROR_IO}

ReleaseOutcomes(dev) == ClaimedOutcomes(dev)

SetAltOutcomes(dev) == ClaimedOutcomes(dev)

SetConfigurationOutcomes ==
    IF host_gone THEN {LIBUSB_ERROR_NO_DEVICE} ELSE {0, LIBUSB_ERROR_BUSY}

SubmitOutcomes == IF host_gone THEN {LIBUSB_ERROR_NO_DEVICE} ELSE {0, LIBUSB_ERROR_IO}

HostErrors == {0, LIBUSB_ERROR_IO, LIBUSB_ERROR_NO_DEVICE, LIBUSB_ERROR_NOT_FOUND}

\* ------------------------------------------------ interface attachment
\* The device part of the state, threaded through the helpers below.
Dev(attached, active, handle, opened, claimed) ==
    [attached |-> attached, active |-> active, handle |-> handle,
     opened |-> opened, claimed |-> claimed]

CurDev == Dev(m_device_attached, m_active_interface, m_handle, host_opened, host_claimed)

Res(ret, dev, calls) == [ret |-> ret, dev |-> dev, calls |-> calls]

\* AttachInterface(interface); dk and cl are the results of
\* libusb_detach_kernel_driver and libusb_claim_interface.
AttachInterface(dev, interface, dk, cl) ==
    IF dev.handle = NULL
    THEN Res(NO_HANDLE_ERROR, dev, <<>>)
    ELSE IF dk < 0 /\ dk # LIBUSB_ERROR_NOT_FOUND /\ dk # LIBUSB_ERROR_NOT_SUPPORTED
    THEN Res(dk, dev, <<HostCall("detach_kernel_driver", dev.handle, interface)>>)
    ELSE IF cl < 0
    THEN Res(cl, dev, <<HostCall("detach_kernel_driver", dev.handle, interface),
                        HostCall("claim_interface", dev.handle, interface)>>)
    ELSE Res(0,
             [dev EXCEPT !.active = interface,
                         !.claimed = @ \cup {<<dev.handle, interface>>}],
             <<HostCall("detach_kernel_driver", dev.handle, interface),
               HostCall("claim_interface", dev.handle, interface)>>)

\* DetachInterface(); rl is the result of libusb_release_interface.
DetachInterface(dev, rl) ==
    IF dev.handle = NULL
    THEN Res(NO_HANDLE_ERROR, dev, <<>>)
    ELSE LET call == <<HostCall("release_interface", dev.handle, dev.active)>>
             after == IF rl = 0
                      THEN [dev EXCEPT !.claimed = @ \ {<<dev.handle, dev.active>>}]
                      ELSE dev
         IN IF rl < 0 /\ rl # LIBUSB_ERROR_NO_DEVICE
            THEN Res(rl, after, call)
            ELSE Res(0, after, call)

\* ChangeInterface that claims the new interface without releasing the old.
ChangeInterface_NoDetach(dev, interface, rl, dk, cl) ==
    IF ~dev.attached \/ interface >= NumInterfaces
    THEN Res(LIBUSB_ERROR_NOT_FOUND, dev, <<>>)
    ELSE AttachInterface(dev, interface, dk, cl)

\* ChangeInterface that goes on to AttachInterface whatever DetachInterface
\* returned.
ChangeInterface_IgnoreDetachFailure(dev, interface, rl, dk, cl) ==
    IF ~dev.attached \/ interface >= NumInterfaces
    THEN Res(LIBUSB_ERROR_NOT_FOUND, dev, <<>>)
    ELSE LET d == DetachInterface(dev, rl)
             a == AttachInterface(d.dev, interface, dk, cl)
         IN Res(a.ret, a.dev, d.calls \o a.calls)

\* ChangeInterface(interface)
ChangeInterface(dev, interface, rl, dk, cl) ==
    IF ~dev.attached \/ interface >= NumInterfaces
    THEN Res(LIBUSB_ERROR_NOT_FOUND, dev, <<>>)
    ELSE LET d == DetachInterface(dev, rl)
         IN IF d.ret < 0
            THEN d
            ELSE LET a == AttachInterface(d.dev, interface, dk, cl)
                 IN Res(a.ret, a.dev, d.calls \o a.calls)

\* SetAltSetting(alt_setting); sa is the result of
\* libusb_set_interface_alt_setting.
SetAltSetting(dev, alt_setting, sa) ==
    IF ~dev.attached
    THEN Res(LIBUSB_ERROR_NOT_FOUND, dev, <<>>)
    ELSE Res(sa, dev, <<HostCall("set_interface_alt_setting", dev.active, alt_setting)>>)

\* Attach without the early return for a device that is already attached.
Attach_NoShortcut(dev, interface, op, rl, dk, cl) ==
    IF dev.attached /\ interface # dev.active
    THEN LET c == ChangeInterface(dev, interface, rl, dk, cl)
         IN Res(c.ret = 0, c.dev, c.calls)
    ELSE LET d0 == [dev EXCEPT !.attached = FALSE]
             opencall == <<HostCall("open", 0, 0)>>
         IN IF op # 0
            THEN Res(FALSE, d0, opencall)
            ELSE LET d1 == [d0 EXCEPT !.handle = dev.opened + 1,
                                      !.opened = dev.opened + 1]
                     a == AttachInterface(d1, interface, dk, cl)
                 IN IF a.ret # 0
                    THEN Res(FALSE, a.dev, opencall \o a.calls)
                    ELSE Res(TRUE, [a.dev EXCEPT !.attached = TRUE],
                             opencall \o a.calls)

\* Attach(interface); op is the result of libusb_open.  The result is TRUE
\* or FALSE in field ret.
Attach(dev, interface, op, rl, dk, cl) ==
    IF dev.attached /\ interface # dev.active
    THEN LET c == ChangeInterface(dev, interface, rl, dk, cl)
         IN Res(c.ret = 0, c.dev, c.calls)
    ELSE IF dev.attached
    THEN Res(TRUE, dev, <<>>)
    ELSE LET d0 == [dev EXCEPT !.attached = FALSE]
             opencall == <<HostCall("open", 0, 0)>>
         IN IF op # 0
            THEN Res(FALSE, d0, opencall)
            ELSE LET d1 == [d0 EXCEPT !.handle = dev.opened + 1,
                                      !.opened = dev.opened + 1]
                     a == AttachInterface(d1, interface, dk, cl)
                 IN IF a.ret # 0
                    THEN Res(FALSE, a.dev, opencall \o a.calls)
                    ELSE Res(TRUE, [a.dev EXCEPT !.attached = TRUE],
                             opencall \o a.calls)

SetDev(dev) ==
    /\ m_device_attached' = dev.attached
    /\ m_active_interface' = dev.active
    /\ m_handle' = dev.handle
    /\ host_opened' = dev.opened
    /\ host_claimed' = dev.claimed

\* The guest calls Attach(interface).
CallAttach(interface) ==
    /\ pc = "idle"
    /\ m_device_attached \/ host_opened < MaxOpens
    /\ \E op \in (IF m_device_attached THEN {0} ELSE OpenOutcomes),
          rl \in (IF m_device_attached /\ interface # m_active_interface
                  THEN ReleaseOutcomes(CurDev) ELSE {0}),
          dk \in (IF m_device_attached /\ interface = m_active_interface
                  THEN {0} ELSE DetachKernelDriverOutcomes),
          cl \in (IF m_device_attached /\ interface = m_active_interface
                  THEN {0} ELSE ClaimOutcomes(interface)) :
          LET r == Attach(CurDev, interface, op, rl, dk, cl)
          IN /\ SetDev(r.dev)
             /\ last' = Op("Attach", interface, 0, r.ret, r.calls, <<>>, NoHit, NoCmd)
    /\ UNCHANGED <<trvars, host_gone, pc, pending>>
    /\ UNCHANGED <<host_closed, m_fdmap, lockvars>>

\* The guest calls ChangeInterface(interface).
CallChangeInterface(interface) ==
    /\ pc = "idle"
    /\ \E dk \in DetachKernelDriverOutcomes, cl \in ClaimOutcomes(interface),
          rl \in ReleaseOutcomes(CurDev) :
          LET r == ChangeInterface(CurDev, interface, rl, dk, cl)
          IN /\ SetDev(r.dev)
             /\ last' = Op("ChangeInterface", interface, r.ret, FALSE, r.calls, <<>>,
                           NoHit, NoCmd)
    /\ UNCHANGED <<trvars, host_gone, pc, pending>>
    /\ UNCHANGED <<host_closed, m_fdmap, lockvars>>

\* The guest calls SetAltSetting(alt_setting).
CallSetAltSetting(alt_setting) ==
    /\ pc = "idle"
    /\ \E sa \in SetAltOutcomes(CurDev) :
          LET r == SetAltSetting(CurDev, alt_setting, sa)
          IN last' = Op("SetAltSetting", alt_setting, r.ret, FALSE, r.calls, <<>>,
                        NoHit, NoCmd)
    /\ UNCHANGED <<devvars, trvars, host_gone, pc, pending>>
    /\ UNCHANGED <<host_closed, m_fdmap, lockvars>>

\* libusb_close(handle): the handle is closed and the claims made through it
\* end with it.
Close(dev) ==
    [dev EXCEPT !.claimed = {c \in @ : c[1] # dev.handle}]

\* A destructor that closes the handle before it releases the interface.
Destructor_CloseFirst(dev, rl) ==
    LET close == IF dev.handle # NULL
                 THEN Res(0, Close(dev), <<HostCall("close", dev.handle, 0)>>)
                 ELSE Res(0, dev, <<>>)
        d == IF dev.attached THEN DetachInterface(close.dev, rl) ELSE Res(0, close.dev, <<>>)
    IN Res(0, d.dev, close.calls \o d.calls \o <<HostCall("unref_device", 0, 0)>>)

\* ~LibusbDevice(); rl is the result of libusb_release_interface.
Destructor(dev, rl) ==
    LET d == IF dev.attached THEN DetachInterface(dev, rl) ELSE Res(0, dev, <<>>)
        close == IF dev.handle # NULL
                 THEN Res(0, Close(d.dev), <<HostCall("close", dev.handle, 0)>>)
                 ELSE Res(0, d.dev, <<>>)
    IN Res(0, close.dev, d.calls \o close.calls \o <<HostCall("unref_device", 0, 0)>>)

\* The handles a sequence of host calls closes.
ClosedBy(calls) == {calls[i].a : i \in {j \in 1..Len(calls) : calls[j].f = "close"}}

\* The owner destroys the device; the host has no transfer of it in flight.
Destroy ==
    /\ pc = "idle"
    /\ \A t \in TransferIds : host_transfers[t].state # "submitted"
    /\ \E rl \in (IF m_device_attached THEN ReleaseOutcomes(CurDev) ELSE {0}) :
          LET r == Destructor(CurDev, rl)
          IN /\ SetDev(r.dev)
             /\ host_closed' = host_closed \cup ClosedBy(r.calls)
             /\ last' = Op("Destroy", 0, 0, FALSE, r.calls, <<>>, NoHit, NoCmd)
    /\ pc' = "destroyed"
    /\ UNCHANGED <<trvars, host_gone, pending, m_fdmap, lockvars>>

\* ------------------------------------------------- the endpoint tracker
EmptyMap == <<>>

\* std::map::operator[]: the tracker of an endpoint, created empty on first use.
WithEndpoint(endpoints, endpoint) ==
    IF endpoint \in DOMAIN endpoints THEN endpoints
    ELSE endpoints @@ (endpoint :> EmptyMap)

\* TransferEndpoint::AddTransfer: m_transfers.emplace(transfer, command).
AddTransfer(m_transfers, command, transfer) ==
    IF transfer \in DOMAIN m_transfers THEN m_transfers
    ELSE m_transfers @@ (transfer :> command)

Erase(m_transfers, transfer) ==
    [t \in (DOMAIN m_transfers) \ {transfer} |-> m_transfers[t]]

\* The completion function CtrlTransferCallback passes to HandleTransfer.
CtrlTransferFn(transfer, cmd) ==
    [called |-> TRUE, ret |-> transfer.length, fill |-> transfer.actual_length,
     pkts |-> <<>>]

RECURSIVE Sum(_)
Sum(s) == IF s = <<>> THEN 0 ELSE Head(s) + Sum(Tail(s))

\* TransferCallback's function returning the bytes transferred for an
\* isochronous transfer too.
TransferFn_IsoBytes(transfer, cmd) ==
    IF transfer.type = "ISOCHRONOUS"
    THEN [called |-> TRUE, ret |-> Sum(transfer.iso_actual), fill |-> cmd.length,
          pkts |-> [i \in 1..cmd.num_packets |-> transfer.iso_actual[i]]]
    ELSE [called |-> TRUE, ret |-> transfer.actual_length,
          fill |-> transfer.actual_length, pkts |-> <<>>]

\* TransferCallback's function using the requested length for the actual one.
TransferFn_FullLength(transfer, cmd) ==
    IF transfer.type = "ISOCHRONOUS"
    THEN [called |-> TRUE, ret |-> IPC_SUCCESS, fill |-> cmd.length,
          pkts |-> [i \in 1..cmd.num_packets |-> transfer.iso_actual[i]]]
    ELSE [called |-> TRUE, ret |-> transfer.length, fill |-> transfer.length,
          pkts |-> <<>>]

\* The completion function TransferCallback passes to HandleTransfer.
TransferFn(transfer, cmd) ==
    IF transfer.type = "ISOCHRONOUS"
    THEN [called |-> TRUE, ret |-> IPC_SUCCESS, fill |-> cmd.length,
          pkts |-> [i \in 1..cmd.num_packets |-> transfer.iso_actual[i]]]
    ELSE [called |-> TRUE, ret |-> transfer.actual_length,
          fill |-> transfer.actual_length, pkts |-> <<>>]

CallFn(fn, transfer, cmd) ==
    IF fn = "ctrl" THEN CtrlTransferFn(transfer, cmd) ELSE TransferFn(transfer, cmd)

\* The switch without the special case for a stall.
ReturnValue_NoStall(status, fnret) ==
    CASE status = "COMPLETED" -> fnret
      [] status \in {"ERROR", "CANCELLED", "TIMED_OUT", "OVERFLOW", "STALL"} ->
            RET_TRANSFER_FAILED
      [] status = "NO_DEVICE" -> IPC_ENOENT
      [] OTHER -> 0

\* The switch of HandleTransfer on transfer->status.
ReturnValue(status, fnret) ==
    CASE status = "COMPLETED" -> fnret
      [] status \in {"ERROR", "CANCELLED", "TIMED_OUT", "OVERFLOW", "STALL"} ->
            IF status = "STALL" THEN RET_STALL ELSE RET_TRANSFER_FAILED
      [] status = "NO_DEVICE" -> IPC_ENOENT
      [] OTHER -> 0

\* HandleTransfer without the early return for a transfer it does not find.
HandleTransfer_NoLookup(m_transfers, transfer, fn) ==
    IF transfer.id \notin DOMAIN m_transfers
    THEN [m_transfers |-> m_transfers,
          hit |-> [NoHit EXCEPT !.completed = <<ReturnValue(transfer.status, 0)>>]]
    ELSE LET cmd == m_transfers[transfer.id]
             f == IF transfer.status = "COMPLETED" THEN CallFn(fn, transfer, cmd) ELSE NoFn
             return_value == ReturnValue(transfer.status, f.ret)
         IN [m_transfers |-> Erase(m_transfers, transfer.id),
             hit |-> [found |-> TRUE, transfer |-> transfer, cmd |-> cmd, fn |-> f,
                      completed |-> <<return_value>>]]

\* TransferEndpoint::HandleTransfer(transfer, fn): the tracker's map afterwards
\* and what the call did; completed lists the return values it passed to
\* OnTransferComplete.
HandleTransfer(m_transfers, transfer, fn) ==
    IF transfer.id \notin DOMAIN m_transfers
    THEN [m_transfers |-> m_transfers, hit |-> NoHit]
    ELSE LET cmd == m_transfers[transfer.id]
             f == IF transfer.status = "COMPLETED" THEN CallFn(fn, transfer, cmd) ELSE NoFn
             return_value == ReturnValue(transfer.status, f.ret)
         IN [m_transfers |-> Erase(m_transfers, transfer.id),
             hit |-> [found |-> TRUE, transfer |-> transfer, cmd |-> cmd, fn |-> f,
                      completed |-> <<return_value>>]]

RECURSIVE SortedSeq(_)
SortedSeq(S) ==
    IF S = {} THEN <<>>
    ELSE LET m == CHOOSE x \in S : \A y \in S : x <= y
         IN <<m>> \o SortedSeq(S \ {m})

\* CancelTransfers with the test for an empty map inverted.
CancelTransfers_Inverted(m_transfers) ==
    IF DOMAIN m_transfers # {} THEN <<>>
    ELSE LET ids == SortedSeq(DOMAIN m_transfers)
         IN [i \in 1..Len(ids) |-> HostCall("cancel_transfer", ids[i], 0)]

\* TransferEndpoint::CancelTransfers: the libusb_cancel_transfer calls it makes.
CancelTransfers(m_transfers) ==
    IF DOMAIN m_transfers = {} THEN <<>>
    ELSE LET ids == SortedSeq(DOMAIN m_transfers)
         IN [i \in 1..Len(ids) |-> HostCall("cancel_transfer", ids[i], 0)]

\* TransferCommand::OnTransferComplete(return_value): enqueues the IPC reply.
OnTransferComplete(return_value) == Reply(return_value, 0)

\* ------------------------------------------------------ guest messages
CtrlMessage(request_type, request, value, index, length) ==
    [type |-> "CONTROL", request_type |-> request_type, request |-> request,
     value |-> value, index |-> index, length |-> length]

\* SET_CONFIGURATION requests to the device.
SetConfigurationMessages ==
    {CtrlMessage(0, REQUEST_SET_CONFIGURATION, v, 0, l) : v \in 0..1, l \in Lengths}

\* SET_INTERFACE requests to an interface; the index is a u16 of the guest.
SetInterfaceMessages ==
    {CtrlMessage(1, REQUEST_SET_INTERFACE, v, i, l) :
        v \in 0..1, i \in InterfaceArgs \cup {U8_RANGE}, l \in Lengths}

\* Requests the switch does not intercept: a device-to-host GET_DESCRIPTOR,
\* SET_CONFIGURATION to an interface and SET_INTERFACE to the device.
ForwardedMessages ==
    {CtrlMessage(rt, rq, 0, 0, l) :
        rt \in {DIR_DEVICE2HOST * 128}, rq \in {REQUEST_GET_DESCRIPTOR}, l \in Lengths}
    \cup {CtrlMessage(1, REQUEST_SET_CONFIGURATION, 0, 0, MaxLen),
          CtrlMessage(0, REQUEST_SET_INTERFACE, 0, 0, MaxLen)}

CtrlMessages == SetConfigurationMessages \cup SetInterfaceMessages \cup ForwardedMessages

BulkMessages == [type : {"BULK"}, endpoint : DataEndpoints, length : {MaxLen}]
IntrMessages == [type : {"INTERRUPT"}, endpoint : DataEndpoints, length : {MaxLen}]

PacketSizes == UNION {[1..n -> {MaxLen}] : n \in 1..MaxPackets}
IsoMessages ==
    {[type |-> "ISOCHRONOUS", endpoint |-> e, length |-> Sum(ps),
      num_packets |-> Len(ps), packet_sizes |-> ps] :
        e \in DataEndpoints, ps \in PacketSizes}

\* ------------------------------------------------------- host transfers
FreeTransfer == [state |-> "free", type |-> "NONE", endpoint |-> 0, length |-> 0,
                 iso_lengths |-> <<>>, cancel |-> FALSE]

\* libusb_alloc_transfer: a transfer object that is not live.
HasFree == \E t \in TransferIds : host_transfers[t].state = "free"
Alloc == CHOOSE t \in TransferIds :
            /\ host_transfers[t].state = "free"
            /\ \A u \in TransferIds : host_transfers[u].state = "free" => t <= u

Allocated(type, endpoint, length, iso_lengths) ==
    [state |-> "allocated", type |-> type, endpoint |-> endpoint, length |-> length,
     iso_lengths |-> iso_lengths, cancel |-> FALSE]

\* The two last statements of an overload exchanged: the transfer is with the
\* host before the tracker has its entry.
Register_SubmitFirst(cmd, transfer) ==
    LET t == Alloc
    IN /\ HasFree
       /\ host_transfers' = [host_transfers EXCEPT ![t] =
                                [transfer EXCEPT !.state = "submitted"]]
       /\ m_transfer_endpoints' = WithEndpoint(m_transfer_endpoints, transfer.endpoint)
       /\ completions' = [completions EXCEPT ![t] = 0]
       /\ processed' = [processed EXCEPT ![t] = FALSE]
       /\ pc' = "submit"
       /\ pending' = t
       /\ last' = Op("AddTransfer", t, 0, FALSE,
                     <<HostCall("alloc_transfer", t, 0)>>, <<>>, NoHit, cmd)

\* The part of the four SubmitTransfer overloads after the request-specific
\* set-up: register the command with the tracker of the transfer's endpoint,
\* and go on to libusb_submit_transfer.
Register(cmd, transfer) ==
    LET t == Alloc
    IN /\ HasFree
       /\ host_transfers' = [host_transfers EXCEPT ![t] = transfer]
       /\ m_transfer_endpoints' =
             LET eps == WithEndpoint(m_transfer_endpoints, transfer.endpoint)
             IN [eps EXCEPT ![transfer.endpoint] = AddTransfer(@, cmd, t)]
       /\ completions' = [completions EXCEPT ![t] = 0]
       /\ processed' = [processed EXCEPT ![t] = FALSE]
       /\ pc' = "submit"
       /\ pending' = t
       /\ last' = Op("AddTransfer", t, 0, FALSE,
                     <<HostCall("alloc_transfer", t, 0)>>, <<>>, NoHit, cmd)

NotAttached(cmd) ==
    /\ last' = Op("SubmitTransfer", 0, LIBUSB_ERROR_NOT_FOUND, FALSE, <<>>, <<>>, NoHit, cmd)
    /\ UNCHANGED <<devvars, trvars, host_gone, pc, pending>>

\* The value SubmitTransfer(CtrlMessage) switches on.
RequestHeader(cmd) == cmd.request_type * 256 + cmd.request

\* case USBHDR(DIR_HOST2DEVICE, TYPE_STANDARD, REC_INTERFACE, REQUEST_SET_INTERFACE)
IsSetInterface(cmd) ==
    RequestHeader(cmd) =
        USBHDR(DIR_HOST2DEVICE, TYPE_STANDARD, REC_INTERFACE, REQUEST_SET_INTERFACE)

\* case USBHDR(DIR_HOST2DEVICE, TYPE_STANDARD, REC_DEVICE, REQUEST_SET_CONFIGURATION)
IsSetConfiguration(cmd) ==
    RequestHeader(cmd) =
        USBHDR(DIR_HOST2DEVICE, TYPE_STANDARD, REC_DEVICE, REQUEST_SET_CONFIGURATION)

\* The reply enqueued whatever the host call returned.
ImmediateReply_Always(cmd, ret) == <<Reply(cmd.length, 0)>>

\* The reply enqueued when the host call failed instead of when it succeeded.
ImmediateReply_Inverted(cmd, ret) ==
    IF ret # 0 THEN <<Reply(cmd.length, 0)>> ELSE <<>>

\* if (ret == 0) m_ios.EnqueueIPCReply(cmd->ios_request, cmd->length);
\* cycles_in_future takes its default, 0.
ImmediateReply(cmd, ret) ==
    IF ret = 0 THEN <<Reply(cmd.length, 0)>> ELSE <<>>

\* SubmitTransfer(std::unique_ptr<CtrlMessage>), up to AddTransfer.
SubmitTransferCtrl(cmd) ==
    /\ pc = "idle"
    /\ IF ~m_device_attached
          THEN NotAttached(cmd)
          ELSE IF IsSetInterface(cmd)
          THEN \E rl \in ReleaseOutcomes(CurDev), dk \in DetachKernelDriverOutcomes,
                  cl \in ClaimOutcomes(cmd.index % U8_RANGE), sa \in HostErrors :
                  LET index == cmd.index % U8_RANGE
                      c == IF index # m_active_interface
                           THEN ChangeInterface(CurDev, index, rl, dk, cl)
                           ELSE Res(0, CurDev, <<>>)
                      s == SetAltSetting(c.dev, cmd.value % U8_RANGE, sa)
                  IN /\ c.ret >= 0 => sa \in SetAltOutcomes(c.dev)
                     /\ c.ret < 0 => sa = 0
                     /\ SetDev(c.dev)
                     /\ last' =
                          IF c.ret < 0
                          THEN Op("SubmitTransfer", 0, c.ret, FALSE, c.calls, <<>>,
                                  NoHit, cmd)
                          ELSE Op("SubmitTransfer", 0, s.ret, FALSE, c.calls \o s.calls,
                                  ImmediateReply(cmd, s.ret), NoHit, cmd)
                     /\ UNCHANGED <<trvars, host_gone, pc, pending>>
          ELSE IF IsSetConfiguration(cmd)
          THEN \E ret \in SetConfigurationOutcomes :
                  /\ last' = Op("SubmitTransfer", 0, ret, FALSE,
                                <<HostCall("set_configuration", m_handle, cmd.value)>>,
                                ImmediateReply(cmd, ret), NoHit, cmd)
                  /\ UNCHANGED <<devvars, trvars, host_gone, pc, pending>>
          ELSE /\ Register([type |-> "CONTROL", length |-> cmd.length],
                           Allocated("CONTROL", CTRL_ENDPOINT,
                                     cmd.length + LIBUSB_CONTROL_SETUP_SIZE, <<>>))
               /\ UNCHANGED <<devvars, host_gone>>
    /\ UNCHANGED <<host_closed, m_fdmap, lockvars>>

\* SubmitTransfer(std::unique_ptr<BulkMessage>) and
\* SubmitTransfer(std::unique_ptr<IntrMessage>), up to AddTransfer.
SubmitTransferBulk(cmd) ==
    /\ pc = "idle"
    /\ IF ~m_device_attached
       THEN NotAttached(cmd)
       ELSE /\ Register([type |-> "BULK", length |-> cmd.length],
                        Allocated("BULK", cmd.endpoint, cmd.length, <<>>))
            /\ UNCHANGED <<devvars, host_gone>>
    /\ UNCHANGED <<host_closed, m_fdmap, lockvars>>

SubmitTransferIntr(cmd) ==
    /\ pc = "idle"
    /\ IF ~m_device_attached
       THEN NotAttached(cmd)
       ELSE /\ Register([type |-> "INTERRUPT", length |-> cmd.length],
                        Allocated("INTERRUPT", cmd.endpoint, cmd.length, <<>>))
            /\ UNCHANGED <<devvars, host_gone>>
    /\ UNCHANGED <<host_closed, m_fdmap, lockvars>>

\* The isochronous overload without the test of m_device_attached.
SubmitTransferIso_NoCheck(cmd) ==
    /\ pc = "idle"
    /\ Register([type |-> "ISOCHRONOUS", length |-> cmd.length,
                 num_packets |-> cmd.num_packets],
                Allocated("ISOCHRONOUS", cmd.endpoint, cmd.length, cmd.packet_sizes))
    /\ UNCHANGED <<devvars, host_gone>>
    /\ UNCHANGED <<host_closed, m_fdmap, lockvars>>

\* SubmitTransfer(std::unique_ptr<IsoMessage>), up to AddTransfer.
SubmitTransferIso(cmd) ==
    /\ pc = "idle"
    /\ IF ~m_device_attached
       THEN NotAttached(cmd)
       ELSE /\ Register([type |-> "ISOCHRONOUS", length |-> cmd.length,
                         num_packets |-> cmd.num_packets],
                        Allocated("ISOCHRONOUS", cmd.endpoint, cmd.length,
                                  cmd.packet_sizes))
            /\ UNCHANGED <<devvars, host_gone>>
    /\ UNCHANGED <<host_closed, m_fdmap, lockvars>>

\* A submission that takes the entry back out of the tracker when the host
\* rejects the transfer.
SubmitToHost_Cleanup ==
    /\ pc = "submit"
    /\ \E ret \in SubmitOutcomes :
          /\ host_transfers' =
                [host_transfers EXCEPT ![pending].state =
                    IF ret = 0 THEN "submitted" ELSE "allocated"]
          /\ m_transfer_endpoints' =
                IF ret = 0 THEN m_transfer_endpoints
                ELSE [e \in DOMAIN m_transfer_endpoints |->
                         Erase(m_transfer_endpoints[e], pending)]
          /\ last' = Op("SubmitTransfer", pending, ret, FALSE,
                        <<HostCall("submit_transfer", pending, 0)>>, <<>>, NoHit,
                        last.cmd)
    /\ pc' = "idle"
    /\ pending' = 0
    /\ UNCHANGED <<devvars, completions, processed, host_gone>>
    /\ UNCHANGED <<host_closed, m_fdmap, lockvars>>

\* The last statement of every SubmitTransfer overload:
\* return libusb_submit_transfer(transfer).
SubmitToHost ==
    /\ pc = "submit"
    /\ \E ret \in SubmitOutcomes :
          /\ host_transfers' =
                [host_transfers EXCEPT ![pending].state =
                    IF ret = 0 THEN "submitted" ELSE "allocated"]
          /\ last' = Op("SubmitTransfer", pending, ret, FALSE,
                        <<HostCall("submit_transfer", pending, 0)>>, <<>>, NoHit,
                        last.cmd)
    /\ pc' = "idle"
    /\ pending' = 0
    /\ UNCHANGED <<devvars, m_transfer_endpoints, completions, processed, host_gone>>
    /\ UNCHANGED <<host_closed, m_fdmap, lockvars>>

\* The guest calls CancelTransfer(endpoint).
CallCancelTransfer(endpoint) ==
    /\ pc = "idle"
    /\ IF endpoint \notin DOMAIN m_transfer_endpoints
       THEN /\ last' = Op("CancelTransfer", endpoint, IPC_ENOENT, FALSE, <<>>, <<>>,
                          NoHit, NoCmd)
            /\ UNCHANGED host_transfers
       ELSE LET calls == CancelTransfers(m_transfer_endpoints[endpoint])
                ids == {calls[i].a : i \in 1..Len(calls)}
            IN /\ host_transfers' =
                     [t \in TransferIds |->
                         IF t \in ids /\ host_transfers[t].state = "submitted"
                         THEN [host_transfers[t] EXCEPT !.cancel = TRUE]
                         ELSE host_transfers[t]]
               /\ last' = Op("CancelTransfer", endpoint, IPC_SUCCESS, FALSE, calls,
                             <<>>, NoHit, NoCmd)
    /\ UNCHANGED <<devvars, m_transfer_endpoints, completions, processed, host_gone,
                   pc, pending>>
    /\ UNCHANGED <<host_closed, m_fdmap, lockvars>>

\* ------------------------------------------------------ the host thread
\* The statuses the host can report for a submitted transfer.
StatusOutcomes(t) ==
    {"COMPLETED", "ERROR", "TIMED_OUT", "STALL", "OVERFLOW"}
    \cup (IF host_transfers[t].cancel THEN {"CANCELLED"} ELSE {})
    \cup (IF host_gone THEN {"NO_DEVICE"} ELSE {})

\* The data length of a transfer: a control transfer's buffer starts with
\* the setup packet.
DataLength(tr) ==
    IF tr.type = "CONTROL" THEN tr.length - LIBUSB_CONTROL_SETUP_SIZE ELSE tr.length

\* The libusb_transfer objects the host can hand to the callback of t: a
\* status and, for a completed transfer, the lengths actually transferred.
Completed(t) ==
    LET tr == host_transfers[t]
        n == Len(tr.iso_lengths)
        base == [id |-> t, type |-> tr.type, endpoint |-> tr.endpoint,
                 length |-> tr.length, status |-> "COMPLETED", actual_length |-> 0,
                 iso_actual |-> [i \in 1..n |-> 0]]
    IN {[base EXCEPT !.status = st] : st \in StatusOutcomes(t) \ {"COMPLETED"}}
       \cup
       {[base EXCEPT !.actual_length = al, !.iso_actual = ia] :
           al \in IF tr.type = "ISOCHRONOUS" THEN {0} ELSE 0..DataLength(tr),
           ia \in {f \in [1..n -> 0..MaxLen] : \A i \in 1..n : f[i] <= tr.iso_lengths[i]}}

\* What a callback's HandleTransfer on the tracker of endpoint does to the
\* device: the entry is removed, the command completed, the reply enqueued.
Dispatch(endpoint, transfer, fn) ==
    LET eps == WithEndpoint(m_transfer_endpoints, endpoint)
        r == HandleTransfer(eps[endpoint], transfer, fn)
        n == Len(r.hit.completed)
    IN /\ m_transfer_endpoints' = [eps EXCEPT ![endpoint] = r.m_transfers]
       /\ completions' = [completions EXCEPT ![transfer.id] = @ + n]
       /\ processed' = [processed EXCEPT ![transfer.id] = @ \/ r.hit.found]
       /\ last' = Op("HandleTransfer", transfer.id, 0, FALSE, <<>>,
                     [i \in 1..n |-> OnTransferComplete(r.hit.completed[i])],
                     r.hit, NoCmd)

\* CtrlTransferCallback(transfer)
CtrlTransferCallback(transfer) == Dispatch(CTRL_ENDPOINT, transfer, "ctrl")

\* TransferCallback(transfer)
TransferCallback(transfer) == Dispatch(transfer.endpoint, transfer, "data")

\* The host completes a submitted transfer: it calls the callback the
\* transfer was filled with, then frees the transfer (FREE_TRANSFER).
HostCallback(t) ==
    /\ host_transfers[t].state = "submitted"
    /\ \E transfer \in Completed(t) :
          IF transfer.type = "CONTROL"
          THEN CtrlTransferCallback(transfer)
          ELSE TransferCallback(transfer)
    /\ host_transfers' = [host_transfers EXCEPT ![t] = FreeTransfer]
    /\ UNCHANGED <<devvars, host_gone, pc, pending>>
    /\ UNCHANGED <<host_closed, m_fdmap, lockvars>>

\* HandleTransfer invoked again for a transfer handle an earlier HandleTransfer
\* has processed and that was not added again since.
RepeatedHandleTransfer(t) ==
    /\ processed[t]
    /\ \E endpoint \in DOMAIN m_transfer_endpoints, st \in {"COMPLETED", "CANCELLED"} :
          Dispatch(endpoint, [NoTransfer EXCEPT !.id = t, !.endpoint = endpoint,
                                                !.status = st], "data")
    /\ UNCHANGED <<devvars, host_transfers, host_gone, pc, pending>>
    /\ UNCHANGED <<host_closed, m_fdmap, lockvars>>

\* The physical device is unplugged.
HostUnplug ==
    /\ ~host_gone
    /\ host_gone' = TRUE
    /\ last' = Op("HostUnplug", 0, 0, FALSE, <<>>, <<>>, NoHit, NoCmd)
    /\ UNCHANGED <<devvars, trvars, pc, pending>>
    /\ UNCHANGED <<host_closed, m_fdmap, lockvars>>

\* ------------------------------------------------ the kernel's handle table
\* The names the guest opens: one the device-name table holds, one it does not.
DeviceNames == {"/dev/usb/ven", "/dev/unknown"}

\* Kernel::GetDeviceByName: the device registered under a name, or NULL.
GetDeviceByName(device_name) == IF device_name = "/dev/usb/ven" THEN 1 ELSE NULL

Slots == 0..(IPC_MAX_FDS - 1)

\* A scan for a free slot that starts over at slot 0 when it finds none.
GetFreeDeviceID_Wraps(fdmap) ==
    IF \E i \in Slots : fdmap[i] = NULL
    THEN CHOOSE i \in Slots : fdmap[i] = NULL /\ \A j \in Slots : fdmap[j] = NULL => i <= j
    ELSE 0

\* Kernel::GetFreeDeviceID: the first free slot scanning from slot 0 upwards,
\* or -1 when every slot is taken.
GetFreeDeviceID(fdmap) ==
    IF \E i \in Slots : fdmap[i] = NULL
    THEN CHOOSE i \in Slots : fdmap[i] = NULL /\ \A j \in Slots : fdmap[j] = NULL => i <= j
    ELSE -1

\* Kernel::OpenDevice: the table afterwards, the value returned and what
\* became of the request.
OpenDevice(fdmap, device_name) ==
    LET device == GetDeviceByName(device_name)
        new_fd == GetFreeDeviceID(fdmap)
    IN IF device = NULL
       THEN [fdmap |-> fdmap, ret |-> IPC_ENOENT, status |-> "not_found"]
       ELSE IF new_fd < 0 \/ new_fd >= IPC_MAX_FDS
       THEN [fdmap |-> fdmap, ret |-> new_fd, status |-> "exhausted"]
       ELSE [fdmap |-> [fdmap EXCEPT ![new_fd] = device], ret |-> new_fd,
             status |-> "opened"]

\* The kernel's handling of CLOSE: the slot of a valid handle is released.
CloseDevice(fdmap, fd) ==
    IF fd \notin Slots \/ fdmap[fd] = NULL
    THEN [fdmap |-> fdmap, status |-> "invalid_handle"]
    ELSE [fdmap |-> [fdmap EXCEPT ![fd] = NULL], status |-> "closed"]

\* The free slots below an occupied one.
Holes(fdmap) ==
    {i \in Slots : fdmap[i] = NULL /\ \E j \in Slots : j > i /\ fdmap[j] # NULL}

\* The guest opens a device by name.
CallOpenDevice(device_name) ==
    /\ LET r == OpenDevice(m_fdmap, device_name)
       IN /\ m_fdmap' = r.fdmap
          /\ last' = Op("OpenDevice", device_name, r.ret, r.status = "opened", <<>>, <<>>,
                        NoHit, NoCmd)
    /\ UNCHANGED <<devvars, trvars, host_gone, pc, pending, host_closed, lockvars>>

\* The guest closes a handle.
CallCloseDevice(fd) ==
    /\ LET r == CloseDevice(m_fdmap, fd)
       IN /\ Cardinality(Holes(r.fdmap)) <= MaxHoles
          /\ m_fdmap' = r.fdmap
          /\ last' = Op("CloseDevice", fd, 0, r.status = "closed", <<>>, <<>>,
                        NoHit, NoCmd)
    /\ UNCHANGED <<devvars, trvars, host_gone, pc, pending, host_closed, lockvars>>

\* ------------------------------------- the tracker's methods, step by step
\* The methods of TransferEndpoint as the two threads execute them: taking
\* m_transfers_mutex, the statements of the body one at a time, and giving
\* the mutex back when the lock_guard goes out of scope.

\* The host thread outside HandleTransfer.
IdleThread == [pc |-> "idle", endpoint |-> 0, transfer |-> NoTransfer, fn |-> "none"]
\* The guest thread outside AddTransfer and CancelTransfers.
NoLocals == [endpoint |-> 0, cmd |-> NoCmd, todo |-> <<>>]

\* A lock_guard that does not wait for the mutex.
Acquire_NoWait(endpoint, thread) ==
    m_transfers_mutex' = m_transfers_mutex \cup {<<endpoint, thread>>}

\* std::lock_guard<std::mutex> lk{m_transfers_mutex}: the thread goes on once
\* no thread holds the mutex of the endpoint's tracker.
Acquire(endpoint, thread) ==
    /\ \A held \in m_transfers_mutex : held[1] # endpoint
    /\ m_transfers_mutex' = m_transfers_mutex \cup {<<endpoint, thread>>}

\* The end of the lock_guard's scope.
Release(endpoint, thread) ==
    m_transfers_mutex' = m_transfers_mutex \ {<<endpoint, thread>>}

\* SubmitTransfer(std::unique_ptr<BulkMessage>) up to its call of AddTransfer.
BeginSubmitTransfer(cmd) ==
    /\ pc = "idle"
    /\ IF ~m_device_attached
       THEN /\ NotAttached(cmd)
            /\ UNCHANGED guest_thread
       ELSE /\ HasFree
            /\ host_transfers' =
                  [host_transfers EXCEPT ![Alloc] =
                      Allocated("BULK", cmd.endpoint, cmd.length, <<>>)]
            /\ m_transfer_endpoints' = WithEndpoint(m_transfer_endpoints, cmd.endpoint)
            /\ completions' = [completions EXCEPT ![Alloc] = 0]
            /\ processed' = [processed EXCEPT ![Alloc] = FALSE]
            /\ pending' = Alloc
            /\ pc' = "add"
            /\ guest_thread' = [endpoint |-> cmd.endpoint,
                                cmd |-> [type |-> "BULK", length |-> cmd.length],
                                todo |-> <<>>]
            /\ last' = Op("SubmitTransfer.alloc", Alloc, 0, FALSE,
                          <<HostCall("alloc_transfer", Alloc, 0)>>, <<>>, NoHit, cmd)
            /\ UNCHANGED <<devvars, host_gone>>
    /\ UNCHANGED <<host_closed, m_fdmap, m_transfers_mutex, host_thread>>

\* AddTransfer: the lock_guard.
AddTransferLock ==
    /\ pc = "add"
    /\ Acquire(guest_thread.endpoint, "guest")
    /\ pc' = "add_locked"
    /\ last' = Op("AddTransfer.lock", pending, 0, FALSE, <<>>, <<>>, NoHit, NoCmd)
    /\ UNCHANGED <<devvars, trvars, host_gone, pending, host_closed, m_fdmap,
                   host_thread, guest_thread>>

\* AddTransfer: m_transfers.emplace(transfer, std::move(command)).
AddTransferEmplace ==
    /\ pc = "add_locked"
    /\ m_transfer_endpoints' =
          [m_transfer_endpoints EXCEPT ![guest_thread.endpoint] =
              AddTransfer(@, guest_thread.cmd, pending)]
    /\ pc' = "add_unlock"
    /\ last' = Op("AddTransfer.emplace", pending, 0, FALSE, <<>>, <<>>, NoHit, NoCmd)
    /\ UNCHANGED <<devvars, host_transfers, completions, processed, host_gone, pending,
                   host_closed, m_fdmap, lockvars>>

\* AddTransfer returns; SubmitTransfer goes on to libusb_submit_transfer.
AddTransferUnlock ==
    /\ pc = "add_unlock"
    /\ Release(guest_thread.endpoint, "guest")
    /\ pc' = "submit"
    /\ guest_thread' = NoLocals
    /\ last' = Op("AddTransfer.unlock", pending, 0, FALSE, <<>>, <<>>, NoHit,
                  guest_thread.cmd)
    /\ UNCHANGED <<devvars, trvars, host_gone, pending, host_closed, m_fdmap,
                   host_thread>>

\* CancelTransfer(endpoint) up to its call of CancelTransfers.
BeginCancelTransfer(endpoint) ==
    /\ pc = "idle"
    /\ IF endpoint \notin DOMAIN m_transfer_endpoints
       THEN /\ last' = Op("CancelTransfer", endpoint, IPC_ENOENT, FALSE, <<>>, <<>>,
                          NoHit, NoCmd)
            /\ UNCHANGED <<pc, guest_thread>>
       ELSE /\ pc' = "cancel"
            /\ guest_thread' = [NoLocals EXCEPT !.endpoint = endpoint]
            /\ last' = Op("CancelTransfer.find", endpoint, 0, FALSE, <<>>, <<>>,
                          NoHit, NoCmd)
    /\ UNCHANGED <<devvars, trvars, host_gone, pending, host_closed, m_fdmap,
                   m_transfers_mutex, host_thread>>

\* CancelTransfers: the lock_guard, the test for an empty map and the start
\* of the loop over m_transfers.
CancelTransfersLock ==
    /\ pc = "cancel"
    /\ Acquire(guest_thread.endpoint, "guest")
    /\ pc' = "cancel_locked"
    /\ guest_thread' =
          [guest_thread EXCEPT !.todo =
              SortedSeq(DOMAIN m_transfer_endpoints[guest_thread.endpoint])]
    /\ last' = Op("CancelTransfers.lock", guest_thread.endpoint, 0, FALSE, <<>>, <<>>,
                  NoHit, NoCmd)
    /\ UNCHANGED <<devvars, trvars, host_gone, pending, host_closed, m_fdmap,
                   host_thread>>

\* CancelTransfers: libusb_cancel_transfer(pending_transfer.first) for the
\* next entry of the loop.
CancelTransfersNext ==
    /\ pc = "cancel_locked"
    /\ guest_thread.todo # <<>>
    /\ LET t == Head(guest_thread.todo)
       IN /\ host_transfers' =
                [host_transfers EXCEPT ![t].cancel =
                    @ \/ host_transfers[t].state = "submitted"]
          /\ last' = Op("CancelTransfers.cancel", t, 0, FALSE,
                        <<HostCall("cancel_transfer", t, 0)>>, <<>>, NoHit, NoCmd)
    /\ guest_thread' = [guest_thread EXCEPT !.todo = Tail(@)]
    /\ UNCHANGED <<devvars, m_transfer_endpoints, completions, processed, host_gone,
                   pc, pending, host_closed, m_fdmap, m_transfers_mutex, host_thread>>

\* CancelTransfers returns, and CancelTransfer with it.
CancelTransfersUnlock ==
    /\ pc = "cancel_locked"
    /\ guest_thread.todo = <<>>
    /\ Release(guest_thread.endpoint, "guest")
    /\ pc' = "idle"
    /\ guest_thread' = NoLocals
    /\ last' = Op("CancelTransfer", guest_thread.endpoint, IPC_SUCCESS, FALSE, <<>>,
                  <<>>, NoHit, NoCmd)
    /\ UNCHANGED <<devvars, trvars, host_gone, pending, host_closed, m_fdmap,
                   host_thread>>

\* The host takes a submitted transfer to completion and calls its callback,
\* which calls HandleTransfer on the tracker of the transfer's endpoint.
BeginCallback(t) ==
    /\ host_thread.pc = "idle"
    /\ host_transfers[t].state = "submitted"
    /\ \E transfer \in Completed(t) :
          host_thread' = [pc |-> "lock",
                          endpoint |-> IF transfer.type = "CONTROL" THEN CTRL_ENDPOINT
                                       ELSE transfer.endpoint,
                          transfer |-> transfer,
                          fn |-> IF transfer.type = "CONTROL" THEN "ctrl" ELSE "data"]
    /\ host_transfers' = [host_transfers EXCEPT ![t].state = "completing"]
    /\ last' = Op("Callback", t, 0, FALSE, <<>>, <<>>, NoHit, NoCmd)
    /\ UNCHANGED <<devvars, m_transfer_endpoints, completions, processed, host_gone,
                   pc, pending, host_closed, m_fdmap, m_transfers_mutex, guest_thread>>

\* HandleTransfer: the lock_guard.
HandleTransferLock ==
    /\ host_thread.pc = "lock"
    /\ Acquire(host_thread.endpoint, "host")
    /\ host_thread' = [host_thread EXCEPT !.pc = "locked"]
    /\ last' = Op("HandleTransfer.lock", host_thread.transfer.id, 0, FALSE, <<>>, <<>>,
                  NoHit, NoCmd)
    /\ UNCHANGED <<devvars, trvars, host_gone, pc, pending, host_closed, m_fdmap,
                   guest_thread>>

\* HandleTransfer: m_transfers.find(transfer) and the early return.
HandleTransferFind ==
    /\ host_thread.pc = "locked"
    /\ LET r == HandleTransfer(m_transfer_endpoints[host_thread.endpoint],
                               host_thread.transfer, host_thread.fn)
       IN /\ host_thread' = [host_thread EXCEPT !.pc =
                                IF r.hit.found THEN "found" ELSE "unlock"]
          /\ last' = Op("HandleTransfer.find", host_thread.transfer.id, 0,
                        r.hit.found, <<>>, <<>>, NoHit, NoCmd)
    /\ UNCHANGED <<devvars, trvars, host_gone, pc, pending, host_closed, m_fdmap,
                   m_transfers_mutex, guest_thread>>

\* HandleTransfer: the switch on the status and cmd.OnTransferComplete.
HandleTransferComplete ==
    /\ host_thread.pc = "found"
    /\ LET r == HandleTransfer(m_transfer_endpoints[host_thread.endpoint],
                               host_thread.transfer, host_thread.fn)
           n == Len(r.hit.completed)
       IN /\ completions' = [completions EXCEPT ![host_thread.transfer.id] = @ + n]
          /\ last' = Op("HandleTransfer.complete", host_thread.transfer.id, 0,
                        r.hit.found, <<>>,
                        [i \in 1..n |-> OnTransferComplete(r.hit.completed[i])],
                        r.hit, NoCmd)
    /\ host_thread' = [host_thread EXCEPT !.pc = "completed"]
    /\ UNCHANGED <<devvars, m_transfer_endpoints, host_transfers, processed, host_gone,
                   pc, pending, host_closed, m_fdmap, m_transfers_mutex, guest_thread>>

\* HandleTransfer: m_transfers.erase(transfer).
HandleTransferErase ==
    /\ host_thread.pc = "completed"
    /\ m_transfer_endpoints' =
          [m_transfer_endpoints EXCEPT ![host_thread.endpoint] =
              Erase(@, host_thread.transfer.id)]
    /\ processed' = [processed EXCEPT ![host_thread.transfer.id] = TRUE]
    /\ host_thread' = [host_thread EXCEPT !.pc = "unlock"]
    /\ last' = Op("HandleTransfer.erase", host_thread.transfer.id, 0, FALSE, <<>>, <<>>,
                  NoHit, NoCmd)
    /\ UNCHANGED <<devvars, host_transfers, completions, host_gone, pc, pending,
                   host_closed, m_fdmap, m_transfers_mutex, guest_thread>>

\* HandleTransfer returns to the callback and the callback to the host, which
\* frees the transfer (LIBUSB_TRANSFER_FREE_TRANSFER).
HandleTransferUnlock ==
    /\ host_thread.pc = "unlock"
    /\ Release(host_thread.endpoint, "host")
    /\ host_transfers' = [host_transfers EXCEPT ![host_thread.transfer.id] = FreeTransfer]
    /\ host_thread' = IdleThread
    /\ last' = Op("HandleTransfer.unlock", host_thread.transfer.id, 0, FALSE, <<>>, <<>>,
                  NoHit, NoCmd)
    /\ UNCHANGED <<devvars, m_transfer_endpoints, completions, processed, host_gone,
                   pc, pending, host_closed, m_fdmap, guest_thread>>

\* ---------------------------------------------------------------- spec
Init ==
    /\ m_device_attached = FALSE
    /\ m_active_interface = 0
    /\ m_handle = NULL
    /\ m_transfer_endpoints = <<>>
    /\ host_opened = 0
    /\ host_claimed = {}
    /\ host_gone = FALSE
    /\ host_transfers = [t \in TransferIds |-> FreeTransfer]
    /\ completions = [t \in TransferIds |-> 0]
    /\ processed = [t \in TransferIds |-> FALSE]
    /\ pc = "idle"
    /\ pending = 0
    /\ last = Op("Init", 0, 0, FALSE, <<>>, <<>>, NoHit, NoCmd)
    /\ host_closed = {}
    /\ m_fdmap = [fd \in 0..(IPC_MAX_FDS - 1) |-> NULL]
    /\ m_transfers_mutex = {}
    /\ host_thread = IdleThread
    /\ guest_thread = NoLocals

\* The guest's calls on the device that do not involve a transfer.
DeviceNext ==
    \/ \E i \in InterfaceArgs : CallAttach(i)
    \/ \E i \in InterfaceArgs : CallChangeInterface(i)
    \/ \E a \in 0..1 : CallSetAltSetting(a)
    \/ \E cmd \in SetInterfaceMessages \cup SetConfigurationMessages :
          SubmitTransferCtrl(cmd)
    \/ HostUnplug
    \/ Destroy

\* Transfers on a device whose only attached interface is interface 0.
TransferNext ==
    \/ CallAttach(0)
    \/ \E cmd \in SetConfigurationMessages \cup ForwardedMessages : SubmitTransferCtrl(cmd)
    \/ \E cmd \in BulkMessages : SubmitTransferBulk(cmd)
    \/ \E cmd \in IntrMessages : SubmitTransferIntr(cmd)
    \/ \E cmd \in IsoMessages : SubmitTransferIso(cmd)
    \/ SubmitToHost
    \/ \E e \in CancelEndpoints : CallCancelTransfer(e)
    \/ \E t \in TransferIds : HostCallback(t)
    \/ \E t \in TransferIds : RepeatedHandleTransfer(t)
    \/ HostUnplug

Next ==
    \/ \E i \in InterfaceArgs : CallAttach(i)
    \/ \E i \in InterfaceArgs : CallChangeInterface(i)
    \/ \E a \in 0..1 : CallSetAltSetting(a)
    \/ \E cmd \in CtrlMessages : SubmitTransferCtrl(cmd)
    \/ \E cmd \in BulkMessages : SubmitTransferBulk(cmd)
    \/ \E cmd \in IntrMessages : SubmitTransferIntr(cmd)
    \/ \E cmd \in IsoMessages : SubmitTransferIso(cmd)
    \/ SubmitToHost
    \/ \E e \in CancelEndpoints : CallCancelTransfer(e)
    \/ \E t \in TransferIds : HostCallback(t)
    \/ \E t \in TransferIds : RepeatedHandleTransfer(t)
    \/ HostUnplug
    \/ Destroy

\* The guest's opens and closes of kernel handles.
KernelNext ==
    \/ \E device_name \in DeviceNames : CallOpenDevice(device_name)
    \/ \E fd \in 0..IPC_MAX_FDS : CallCloseDevice(fd)

\* The two threads inside the tracker of one endpoint.
LockNext ==
    \/ CallAttach(0)
    \/ \E cmd \in BulkMessages : BeginSubmitTransfer(cmd)
    \/ AddTransferLock
    \/ AddTransferEmplace
    \/ AddTransferUnlock
    \/ SubmitToHost
    \/ \E e \in CancelEndpoints : BeginCancelTransfer(e)
    \/ CancelTransfersLock
    \/ CancelTransfersNext
    \/ CancelTransfersUnlock
    \/ \E t \in TransferIds : BeginCallback(t)
    \/ HandleTransferLock
    \/ HandleTransferFind
    \/ HandleTransferComplete
    \/ HandleTransferErase
    \/ HandleTransferUnlock

Spec == Init /\ [][Next]_vars
LockSpec == Init /\ [][LockNext]_vars
KernelSpec == Init /\ [][KernelNext]_vars
DeviceSpec == Init /\ [][DeviceNext]_vars
TransferSpec == Init /\ [][TransferNext]_vars
\* The host runs the callback of every transfer it accepted, and the guest
\* thread runs SubmitTransfer to its end.
FairTransferSpec ==
    /\ TransferSpec
    /\ WF_vars(\E t \in TransferIds : HostCallback(t))
    /\ WF_vars(SubmitToHost)

\* ------------------------------------------------------------- claims
\* The transfer handle is an entry of some endpoint tracker.
Tracked(t) ==
    \E e \in DOMAIN m_transfer_endpoints : t \in DOMAIN m_transfer_endpoints[e]

\* The transfer handles tracked for an endpoint.
PendingOn(e) ==
    IF e \in DOMAIN m_transfer_endpoints THEN DOMAIN m_transfer_endpoints[e] ELSE {}

CallArgs(calls) == {calls[i].a : i \in 1..Len(calls)}

\* C1: every command handed to a tracker by AddTransfer, whatever the host
\* answers to the submission, is eventually completed by OnTransferComplete
\* exactly once and its entry removed; none is completed twice.
C1_ExactlyOneTerminalDisposition ==
    /\ \A t \in TransferIds : Tracked(t) ~> (~Tracked(t) /\ completions[t] = 1)
    /\ [](\A t \in TransferIds : completions[t] <= 1)

\* C2: a HandleTransfer for a transfer handle that an earlier HandleTransfer
\* processed, and that was not added again, finds no entry, calls neither
\* the completion function nor OnTransferComplete, enqueues no reply and
\* leaves the trackers as they were.
C2_SecondHandleTransferIsNoOp ==
    [][\A t \in TransferIds :
          (processed[t] /\ last'.op = "HandleTransfer" /\ last'.arg = t)
          => /\ ~last'.hit.found
             /\ ~last'.hit.fn.called
             /\ last'.hit.completed = <<>>
             /\ last'.replies = <<>>
             /\ m_transfer_endpoints' = m_transfer_endpoints
             /\ completions' = completions]_vars

C2_Witness ==
    /\ last.op = "HandleTransfer"
    /\ last.arg \in TransferIds
    /\ processed[last.arg]
    /\ ~last.hit.found

\* C3: CancelTransfer on an endpoint with no tracked transfer returns
\* IPC_ENOENT, requests no cancellation and changes nothing, whether the
\* endpoint was never used or its transfers have all completed.
C3_CancelWithoutPendingIsNoEntry ==
    [][\A e \in CancelEndpoints :
          (PendingOn(e) = {} /\ last'.op = "CancelTransfer" /\ last'.arg = e)
          => /\ last'.ret = IPC_ENOENT
             /\ last'.calls = <<>>
             /\ UNCHANGED <<m_transfer_endpoints, host_transfers>>]_vars

\* C4: CancelTransfer requests the host cancellation of every transfer
\* tracked for the endpoint and removes none: the trackers are unchanged, no
\* command is completed, and an entry only ever disappears in a
\* HandleTransfer for its transfer.
C4_CancelRemovesNothing ==
    [][/\ last'.op = "CancelTransfer"
          => /\ m_transfer_endpoints' = m_transfer_endpoints
             /\ completions' = completions
             /\ last'.replies = <<>>
             /\ \A i \in 1..Len(last'.calls) : last'.calls[i].f = "cancel_transfer"
             /\ CallArgs(last'.calls) = PendingOn(last'.arg)
             /\ \A t \in PendingOn(last'.arg) :
                   host_transfers[t].state = "submitted" => host_transfers'[t].cancel
       /\ \A t \in TransferIds :
             (Tracked(t) /\ ~Tracked(t)')
             => (last'.op = "HandleTransfer" /\ last'.arg = t /\ last'.hit.found)]_vars

C4_Witness ==
    /\ last.op = "CancelTransfer"
    /\ last.calls # <<>>
    /\ \A t \in CallArgs(last.calls) : Tracked(t) /\ host_transfers[t].cancel

\* C5: for a tracked transfer the value passed to OnTransferComplete is
\* decided by the host status: the completion function's value for
\* COMPLETED, -7004 for STALL, -5 for ERROR, CANCELLED, TIMED_OUT and
\* OVERFLOW, IPC_ENOENT for NO_DEVICE; the completion function runs for
\* COMPLETED only, and the three codes differ.
C5_ReturnValueByStatus ==
    (last.op = "HandleTransfer" /\ last.hit.found)
    => LET st == last.hit.transfer.status
           rv == last.hit.completed
       IN /\ Len(rv) = 1
          /\ st \in TransferStatuses
          /\ last.hit.fn.called <=> (st = "COMPLETED")
          /\ st = "COMPLETED" => rv[1] = last.hit.fn.ret
          /\ st = "STALL" => rv[1] = -7004
          /\ st \in {"ERROR", "CANCELLED", "TIMED_OUT", "OVERFLOW"} => rv[1] = -5
          /\ st = "NO_DEVICE" => rv[1] = IPC_ENOENT
          /\ IPC_ENOENT \notin {-7004, -5}

C5_Witness ==
    /\ last.op = "HandleTransfer"
    /\ last.hit.found
    /\ last.hit.transfer.status = "STALL"

\* C6: an isochronous transfer that completes with status COMPLETED
\* delivers 0 for the command, and the value written back for each packet
\* below num_packets is the actual length the host reported for it.
C6_IsoReturnsZero ==
    (/\ last.op = "HandleTransfer"
     /\ last.hit.found
     /\ last.hit.transfer.type = "ISOCHRONOUS"
     /\ last.hit.transfer.status = "COMPLETED")
    => /\ last.hit.completed = <<0>>
       /\ Len(last.hit.fn.pkts) = last.hit.cmd.num_packets
       /\ \A i \in 1..last.hit.cmd.num_packets :
             last.hit.fn.pkts[i] = last.hit.transfer.iso_actual[i]

C6_Witness ==
    /\ last.op = "HandleTransfer"
    /\ last.hit.found
    /\ last.hit.transfer.type = "ISOCHRONOUS"
    /\ last.hit.transfer.status = "COMPLETED"
    /\ last.hit.cmd.num_packets = 2
    /\ last.hit.fn.pkts[1] # last.hit.fn.pkts[2]

\* C7: a bulk or interrupt transfer that completes with status COMPLETED
\* and actual length n delivers n for the command and copies n bytes back.
C7_BulkReturnsActualLength ==
    (/\ last.op = "HandleTransfer"
     /\ last.hit.found
     /\ last.hit.transfer.type \in {"BULK", "INTERRUPT"}
     /\ last.hit.transfer.status = "COMPLETED")
    => /\ last.hit.completed = <<last.hit.transfer.actual_length>>
       /\ last.hit.fn.fill = last.hit.transfer.actual_length
       /\ last.replies = <<Reply(last.hit.transfer.actual_length, 0)>>

C7_Witness ==
    /\ last.op = "HandleTransfer"
    /\ last.hit.found
    /\ last.hit.transfer.type = "BULK"
    /\ last.hit.transfer.endpoint \in DataEndpoints
    /\ last.hit.transfer.status = "COMPLETED"
    /\ last.hit.transfer.actual_length = last.hit.transfer.length
    /\ last.hit.transfer.length > 0
    /\ last.hit.completed = <<last.hit.transfer.length>>

\* A standard host-to-device SET_CONFIGURATION request to the device.
StandardSetConfiguration(cmd) ==
    /\ cmd.type = "CONTROL"
    /\ "request" \in DOMAIN cmd
    /\ cmd.request_type = 0
    /\ cmd.request = 9

\* C8: SubmitTransfer of a standard SET_CONFIGURATION request on an attached
\* device calls the host's set-configuration with the message's value,
\* allocates and submits no transfer and adds no tracker entry; it enqueues
\* one reply of the message's length with no delay if the host call returns
\* 0, and no reply otherwise, returning the host's code.
C8_SetConfigurationHandledDirectly ==
    [][(/\ m_device_attached
        /\ last'.op = "SubmitTransfer"
        /\ StandardSetConfiguration(last'.cmd))
       => /\ last'.calls = <<HostCall("set_configuration", m_handle, last'.cmd.value)>>
          /\ UNCHANGED <<m_transfer_endpoints, host_transfers, pending>>
          /\ pc' = "idle"
          /\ last'.ret = 0 => last'.replies = <<Reply(last'.cmd.length, 0)>>
          /\ last'.ret # 0 => last'.replies = <<>>]_vars

C8_Witness ==
    /\ last.op = "SubmitTransfer"
    /\ StandardSetConfiguration(last.cmd)
    /\ last.cmd.value = 1
    /\ last.cmd.length = MaxLen
    /\ last.ret = 0
    /\ last.replies = <<Reply(MaxLen, 0)>>

\* C9: Attach of the interface that is already active returns success, makes
\* no host call and leaves the handle, the attached flag and the active
\* interface as they were.
C9_AttachIdempotent ==
    [][(/\ m_device_attached
        /\ last'.op = "Attach"
        /\ last'.arg = m_active_interface)
       => /\ last'.ok
          /\ last'.calls = <<>>
          /\ UNCHANGED <<m_device_attached, m_active_interface, m_handle,
                         host_opened, host_claimed>>]_vars

C9_Witness ==
    /\ last.op = "Attach"
    /\ last.ok
    /\ last.calls = <<>>
    /\ m_device_attached
    /\ last.arg = m_active_interface

\* C10: at most one interface is claimed on the host at any time; Attach of
\* another interface than the active one releases the active interface
\* before it claims the new one, and when it succeeds the new one is active
\* and the only one claimed.
C10_AttachmentsNeverStack ==
    /\ [](Cardinality(host_claimed) <= 1)
    /\ [][(/\ m_device_attached
           /\ last'.op = "Attach"
           /\ last'.arg # m_active_interface)
          => LET calls == last'.calls
             IN /\ \A k \in 1..Len(calls) :
                      calls[k].f = "claim_interface"
                      => /\ calls[k].b = last'.arg
                         /\ \E r \in 1..(k - 1) :
                               /\ calls[r].f = "release_interface"
                               /\ calls[r].b = m_active_interface
                /\ last'.ok => /\ m_active_interface' = last'.arg
                               /\ host_claimed' = {<<m_handle', last'.arg>>}]_vars

C10_Witness ==
    /\ last.op = "Attach"
    /\ last.ok
    /\ Len(last.calls) = 3
    /\ last.calls[1].f = "release_interface"
    /\ m_active_interface = last.arg
    /\ host_claimed = {<<m_handle, last.arg>>}

\* C11: ChangeInterface on a device that is not attached, or for an interface
\* number not below the interface count, returns not-found without a host
\* call; when the release of the active interface fails it returns the
\* release's code after that one host call, with no kernel-driver-detach and
\* no claim call, and the attached flag and the active interface are as they
\* were.
C11_ChangeInterfaceFailsFast ==
    /\ [](\A i \in InterfaceArgs, rl \in ReleaseOutcomes(CurDev),
             dk \in DetachKernelDriverOutcomes :
             \A cl \in ClaimOutcomes(i) :
             LET d == DetachInterface(CurDev, rl)
                 c == ChangeInterface(CurDev, i, rl, dk, cl)
             IN /\ (~m_device_attached \/ i >= NumInterfaces)
                   => c = Res(LIBUSB_ERROR_NOT_FOUND, CurDev, <<>>)
                /\ (m_device_attached /\ i < NumInterfaces /\ d.ret < 0)
                   => /\ c.ret = d.ret
                      /\ c.calls = <<HostCall("release_interface", m_handle,
                                              m_active_interface)>>
                      /\ c.dev.attached = m_device_attached
                      /\ c.dev.active = m_active_interface)
    /\ [][last'.op = "ChangeInterface"
          => /\ (~m_device_attached \/ last'.arg >= NumInterfaces)
                => /\ last'.ret = LIBUSB_ERROR_NOT_FOUND
                   /\ last'.calls = <<>>
                   /\ UNCHANGED devvars
             /\ (m_device_attached /\ last'.arg < NumInterfaces)
                => /\ Len(last'.calls) >= 1
                   /\ last'.calls[1] = HostCall("release_interface", m_handle,
                                                m_active_interface)
                   /\ Len(last'.calls) = 1
                      => /\ last'.ret < 0
                         /\ UNCHANGED <<m_device_attached, m_active_interface>>
                   /\ (~host_gone /\ <<m_handle, m_active_interface>> \notin host_claimed)
                      => /\ last'.ret = LIBUSB_ERROR_NOT_FOUND
                         /\ Len(last'.calls) = 1]_vars

C11_Witness ==
    /\ last.op = "ChangeInterface"
    /\ last.ret = LIBUSB_ERROR_IO
    /\ m_device_attached
    /\ last.arg < NumInterfaces
    /\ last.arg # m_active_interface
    /\ last.calls = <<HostCall("release_interface", m_handle, m_active_interface)>>
    /\ <<m_handle, m_active_interface>> \in host_claimed

\* C12: every SubmitTransfer overload called on a device that is not attached
\* returns not-found and does nothing else: no transfer is allocated or
\* submitted, no tracker entry added, no host call made, no reply enqueued.
C12_SubmitValidatesAttachment ==
    [][(/\ ~m_device_attached
        /\ pc = "idle"
        /\ last'.op \in {"SubmitTransfer", "AddTransfer"})
       => /\ last'.op = "SubmitTransfer"
          /\ last'.ret = LIBUSB_ERROR_NOT_FOUND
          /\ last'.calls = <<>>
          /\ last'.replies = <<>>
          /\ UNCHANGED <<devvars, trvars, host_closed, pc, pending>>]_vars

C12_Witness ==
    /\ last.op = "SubmitTransfer"
    /\ last.cmd.type = "ISOCHRONOUS"
    /\ last.ret = LIBUSB_ERROR_NOT_FOUND
    /\ ~m_device_attached
    /\ m_handle # NULL

\* The host rejected the submission of the transfer and SubmitTransfer has
\* returned.
Rejected(t) == host_transfers[t].state = "allocated" /\ pending # t

\* C13: when the host rejects a submission SubmitTransfer returns the host's
\* code after that one host call and leaves the entry it registered in the
\* tracker; the host never runs a callback for the transfer, so the entry
\* stays and its command is never completed.
C13_RejectedSubmissionStaysTracked ==
    /\ [][(pc = "submit" /\ last'.op = "SubmitTransfer")
          => /\ last'.arg = pending
             /\ last'.calls = <<HostCall("submit_transfer", pending, 0)>>
             /\ last'.replies = <<>>
             /\ m_transfer_endpoints' = m_transfer_endpoints
             /\ \E e \in DOMAIN m_transfer_endpoints' :
                   pending \in DOMAIN m_transfer_endpoints'[e]
             /\ (last'.ret # 0) <=> (host_transfers'[pending].state = "allocated")
             /\ (last'.ret = 0) <=> (host_transfers'[pending].state = "submitted")]_vars
    /\ [](\A t \in TransferIds :
             Rejected(t) => (Tracked(t) /\ completions[t] = 0 /\ ~processed[t]))
    /\ [][\A t \in TransferIds :
             Rejected(t)
             => /\ host_transfers'[t].state = "allocated"
                /\ ~(last'.op = "HandleTransfer" /\ last'.arg = t)]_vars

C13_Witness ==
    /\ last.op = "SubmitTransfer"
    /\ last.ret = LIBUSB_ERROR_IO
    /\ last.arg \in TransferIds
    /\ Rejected(last.arg)
    /\ Tracked(last.arg)
    /\ pc = "idle"

\* C14: the destructor releases the active interface if the device is
\* attached, then closes the host handle if there is one, then releases the
\* host device reference, in that order; after the close no host call uses
\* the handle.
C14_DestructionOrder ==
    [][last'.op = "Destroy"
       => LET calls == last'.calls
              release == IF m_device_attached
                         THEN <<HostCall("release_interface", m_handle,
                                         m_active_interface)>>
                         ELSE <<>>
              close == IF m_handle # NULL
                       THEN <<HostCall("close", m_handle, 0)>> ELSE <<>>
          IN /\ calls = release \o close \o <<HostCall("unref_device", 0, 0)>>
             /\ \A i, j \in 1..Len(calls) :
                   (calls[i].f = "close" /\ i < j) => calls[j].f = "unref_device"
             /\ host_closed' = host_closed \cup (IF m_handle # NULL THEN {m_handle} ELSE {})
             /\ m_device_attached => m_handle # NULL]_vars

C14_Witness ==
    /\ last.op = "Destroy"
    /\ Len(last.calls) = 3
    /\ last.calls[1].f = "release_interface"
    /\ last.calls[2].f = "close"
    /\ host_closed # {}

\* The handles the host has opened and not closed.
OpenHandles == (1..host_opened) \ host_closed

\* C19: while the device exists, whenever its attached flag is set its host
\* handle is open and the interface recorded as active is claimed on the
\* host through that handle.
C19_AttachedMeansClaimed ==
    (pc # "destroyed" /\ m_device_attached)
    => /\ m_handle \in OpenHandles
       /\ <<m_handle, m_active_interface>> \in host_claimed

\* C20: Attach never opens the host handle while a handle opened earlier is
\* still unclosed, and the destructor closes every handle that was opened,
\* each exactly once.
C20_HandleOpenedOnceClosedOnce ==
    [][/\ (last'.op = "Attach" /\ host_opened' # host_opened) => OpenHandles = {}
       /\ last'.op = "Destroy"
          => /\ OpenHandles' = {}
             /\ \A h \in 1..host_opened :
                   Cardinality({i \in 1..Len(last'.calls) :
                                   last'.calls[i] = HostCall("close", h, 0)}) = 1]_vars

\* The endpoint number whose tracker a transfer's callback looks in.
CallbackKey(tr) == IF tr.type = "CONTROL" THEN CTRL_ENDPOINT ELSE tr.endpoint

\* C17: a forwarding SubmitTransfer registers its command, under the endpoint
\* number the callback of the transfer uses, before it submits the transfer:
\* the entry is there when the transfer goes to the host and for as long as
\* the host has it, so the callback the host runs for it finds the entry and
\* completes the command.
C17_RegisteredBeforeSubmitted ==
    /\ [](\A t \in TransferIds :
             host_transfers[t].state = "submitted"
             => t \in PendingOn(CallbackKey(host_transfers[t])))
    /\ [][/\ last'.op = "AddTransfer"
             => LET key == CallbackKey(host_transfers'[pending'])
                IN /\ key \in DOMAIN m_transfer_endpoints'
                   /\ pending' \in DOMAIN m_transfer_endpoints'[key]
                   /\ host_transfers'[pending'].state = "allocated"
          /\ (pc = "submit" /\ last'.op = "SubmitTransfer")
             => pending \in PendingOn(CallbackKey(host_transfers[pending]))
          /\ \A t \in TransferIds :
                (/\ host_transfers[t].state = "submitted"
                 /\ host_transfers'[t].state = "free")
                => /\ last'.op = "HandleTransfer"
                   /\ last'.arg = t
                   /\ last'.hit.found
                   /\ completions'[t] = 1]_vars

C17_Witness ==
    /\ last.op = "HandleTransfer"
    /\ last.hit.found
    /\ last.hit.transfer.type = "CONTROL"
    /\ last.hit.transfer.status = "COMPLETED"
    /\ CTRL_ENDPOINT \in DOMAIN m_transfer_endpoints
    /\ DataEndpoints \subseteq DOMAIN m_transfer_endpoints

\* What C18 says of a SubmitTransfer step for the SET_INTERFACE request cmd.
SetInterfaceDirectly(cmd) ==
    LET index == cmd.index % 256
        value == cmd.value % 256
        calls == last'.calls
        n == Len(calls)
        setalt == HostCall("set_interface_alt_setting", index, value)
    IN /\ last'.op = "SubmitTransfer"
       /\ UNCHANGED <<trvars, pc, pending>>
       /\ \A k \in 1..n : calls[k].f \notin {"alloc_transfer", "submit_transfer"}
       /\ index = m_active_interface
          => (calls = <<setalt>> /\ UNCHANGED devvars)
       /\ index # m_active_interface
          => /\ index < NumInterfaces
                => (n >= 1 /\ calls[1] = HostCall("release_interface", m_handle,
                                                  m_active_interface))
             /\ m_active_interface' # index
                => /\ last'.ret < 0
                   /\ last'.replies = <<>>
                   /\ \A k \in 1..n : calls[k].f # "set_interface_alt_setting"
             /\ m_active_interface' = index
                => /\ n = 4
                   /\ calls[n] = setalt
                   /\ \A k \in 1..(n - 1) : calls[k].f # "set_interface_alt_setting"
       /\ last'.replies = IF last'.ret = 0 THEN <<Reply(cmd.length, 0)>> ELSE <<>>

\* C18: SubmitTransfer of a standard SET_INTERFACE request on an attached
\* device allocates and submits no transfer and adds no tracker entry; when
\* the request's interface is not the active one it first changes interface
\* and, if that fails, returns the error with no alternate-setting call and
\* no reply; otherwise it sets the alternate setting to the request's value
\* and enqueues one reply of the message's length exactly when that call
\* returns 0.
C18_SetInterfaceHandledDirectly ==
    [][/\ (/\ m_device_attached
           /\ pc = "idle"
           /\ last'.op = "SubmitTransfer"
           /\ last'.cmd \in SetInterfaceMessages)
          => SetInterfaceDirectly(last'.cmd)
       /\ last'.op = "AddTransfer"
          => \A cmd \in SetInterfaceMessages : ~SubmitTransferCtrl(cmd)]_vars

C18_Witness ==
    /\ last.op = "SubmitTransfer"
    /\ last.cmd \in SetInterfaceMessages
    /\ last.cmd.index = 1
    /\ last.cmd.value = 1
    /\ last.ret = 0
    /\ Len(last.calls) = 4
    /\ last.calls[1].f = "release_interface"
    /\ last.calls[4] = HostCall("set_interface_alt_setting", 1, 1)
    /\ last.replies = <<Reply(last.cmd.length, 0)>>
    /\ m_active_interface = 1

\* The free slots of the handle table.
FreeSlots == {i \in Slots : m_fdmap[i] = NULL}

\* C16: over the table of 24 slots, opening a registered device returns the
\* lowest slot that is free and fills that slot only; when no slot is free
\* it reports exhaustion, returns no slot and leaves the table as it was;
\* closing a handle frees its slot and no other, so that the next open can
\* return it; a slot holds nothing or one device reference.
C16_LowestFreeHandle ==
    /\ [](IPC_MAX_FDS = 24 /\ DOMAIN m_fdmap = 0..23
           /\ \A i \in Slots : m_fdmap[i] \in {NULL, GetDeviceByName("/dev/usb/ven")})
    /\ [][/\ (last'.op = "OpenDevice" /\ GetDeviceByName(last'.arg) # NULL)
             => IF FreeSlots # {}
                THEN /\ last'.ok
                     /\ last'.ret \in FreeSlots
                     /\ \A i \in FreeSlots : last'.ret <= i
                     /\ m_fdmap' = [m_fdmap EXCEPT ![last'.ret] =
                                       GetDeviceByName(last'.arg)]
                ELSE /\ ~last'.ok
                     /\ last'.ret \notin Slots
                     /\ last'.ret # IPC_ENOENT
                     /\ m_fdmap' = m_fdmap
          /\ (last'.op = "CloseDevice" /\ last'.arg \in Slots /\ m_fdmap[last'.arg] # NULL)
             => /\ last'.ok
                /\ m_fdmap' = [m_fdmap EXCEPT ![last'.arg] = NULL]
                /\ \A device_name \in DeviceNames :
                      GetDeviceByName(device_name) # NULL
                      => OpenDevice(m_fdmap', device_name).ret <= last'.arg]_vars

C16_Witness ==
    /\ last.op = "OpenDevice"
    /\ last.ok
    /\ last.ret = 3
    /\ \A i \in Slots : m_fdmap[i] # NULL

\* The thread is inside a method of the tracker of endpoint e, past its
\* lock_guard.
GuestInside(e) ==
    pc \in {"add_locked", "add_unlock", "cancel_locked"} /\ guest_thread.endpoint = e
HostInside(e) ==
    host_thread.pc \in {"locked", "found", "completed", "unlock"} /\ host_thread.endpoint = e

\* AddTransfer has returned for the transfer and no HandleTransfer has yet
\* erased its entry.
Added(t) ==
    \/ host_transfers[t].state = "submitted"
    \/ host_transfers[t].state = "allocated" /\ ~(pending = t /\ pc \in {"add", "add_locked"})
    \/ /\ host_transfers[t].state = "completing"
       /\ host_thread.transfer.id = t
       /\ host_thread.pc \in {"lock", "locked", "found", "completed"}

====
